---- MODULE Spec2Model ----
(***************************************************************************)
(* Pair-analysis pipeline of the Freqtrade Pair Analyser:                  *)
(*   utils/data_manager.py    DataManager      (acquisition with retry)    *)
(*   utils/analysis_engine.py AnalysisEngine   (quality gate, metrics)     *)
(*   utils/data_handler.py    VersionedAnalyzer (per-pair task, fan-out,   *)
(*                                               collection, ranking)      *)
(*                                                                         *)
(* Units.  Real-valued metrics are fixed-point integers in thousandths     *)
(* ("milli"): trend_strength 25.0 is 25000.  A composite score s is kept   *)
(* as s * ScoreScale.  A pair identifier is a natural number; the order of *)
(* the numbers stands for the lexicographic order of the pair names.       *)
(* A float that may be NaN or infinite is a record [k, v] with k one of    *)
(* "num", "nan", "inf", "ninf".                                            *)
(***************************************************************************)
EXTENDS Integers, Sequences, FiniteSets, TLC

\* ------------------------------------------------------------------ bounds
MaxPairs == 2
MaxWorkers == 2
\* timeout periods for which a blocked coordinator is observed
MaxTicks == 1
\* longest result list handed to save_results on its own
MaxResults == 12
\* longest base currency name of the pairs whose file names are compared
MaxBaseLen == 3
\* number of pairs the pairlist generator gets from the exchange
MaxCandidates == 3

PairIds == 1..MaxPairs

\* ------------------------------------------------- configuration constants
days_to_analyze == 90
extra_days == 7
min_data_points == 30
max_retries == 3
result_timeout == 120
\* save_results lists the first ten pairs as top_pairs
top_n == 10
min_file_size == 100
\* AnalysisEngine.__init__ defaults; VersionedAnalyzer builds AnalysisEngine()
engine_timeframe == "1h"
\* VersionedAnalyzer.__init__ builds DataManager with its own first timeframe
data_manager_timeframe == "1d"
\* min_data_quality 0.3 and max_null_percentage 0.2, in percent
min_data_quality_pct == 30
max_null_percentage_pct == 20
\* a composite score s is stored as s * ScoreScale: the weights over their
\* caps (0.3/100, 0.25/5, 0.2/20, 0.15, 0.1/100) times 2000 are 6, 100, 20,
\* 300, 2, and the metrics are in milli
ScoreScale == 2000 * 1000

\* ------------------------------------------------------------------ floats
Num(v) == [k |-> "num", v |-> v]
NaN == [k |-> "nan", v |-> 0]
NegInf == [k |-> "ninf", v |-> 0]
PosInf == [k |-> "inf", v |-> 0]

\* what a calculator whose exception is not caught leaves in place of a value
Raised == [k |-> "raise", v |-> 0]

\* pd.isna(x)
isna(x) == x.k = "nan"

\* np.isfinite(x)
isfinite(x) == x.k = "num"

\* ------------------------------------------------------- candle series
\* A candle series is known to the pipeline through its length, its null
\* fractions, its columns, the sign of its prices, and the values the
\* numerical kernels (rolling std, ADX, EMA, ...) produce on it.
\*   bars      number of rows
\*   nullmax   largest per-column fraction of nulls, percent
\*   nullmean  mean per-column fraction of nulls, percent
\*   cols      columns present
\*   minprice  smallest value over open/high/low/close, milli
\*   meanvol   mean of the volume column, in halves (2000 is 1000.0)
\*   std14     mean rolling std of log returns, milli (float)
\*   adx       mean ADX, milli (float)
\*   coral     fraction of bars with |coral| > 1, milli (float)
\*   stc       mean absolute difference of the stochastic, milli (float)
\*   fails     the calculators that raise inside on this series, out of
\*             "volatility", "adx", "volume", "coral", "stc"
\*   pct       mean absolute close-to-close change in percent, milli
\*             (float): the fallback trend strength
OHLCV == {"open", "high", "low", "close", "volume"}

Series(id) ==
    CASE id = "good" ->
           [bars |-> 97, nullmax |-> 0, nullmean |-> 0, cols |-> OHLCV,
            minprice |-> 1000, meanvol |-> 2000, std14 |-> Num(20),
            adx |-> Num(25000), coral |-> Num(100), stc |-> Num(12000),
            fails |-> {}, pct |-> Num(1500)]
      [] id = "hot" ->
           [bars |-> 97, nullmax |-> 20, nullmean |-> 4, cols |-> OHLCV,
            minprice |-> 1, meanvol |-> 2000000000, std14 |-> Num(60),
            adx |-> Num(60000), coral |-> Num(1000), stc |-> Num(120000),
            fails |-> {}, pct |-> Num(1500)]
      [] id = "calm" ->
           [bars |-> 97, nullmax |-> 0, nullmean |-> 0, cols |-> OHLCV,
            minprice |-> 1000, meanvol |-> 0, std14 |-> Num(1),
            adx |-> Num(8000), coral |-> Num(0), stc |-> Num(500),
            fails |-> {}, pct |-> Num(1500)]
      [] id = "negvol" ->
           [bars |-> 97, nullmax |-> 0, nullmean |-> 0, cols |-> OHLCV,
            minprice |-> 1000, meanvol |-> -1, std14 |-> Num(0),
            adx |-> NaN, coral |-> Num(0), stc |-> Num(0),
            fails |-> {}, pct |-> Num(1500)]
      [] id = "voidvol" ->
           [bars |-> 97, nullmax |-> 0, nullmean |-> 0, cols |-> OHLCV,
            minprice |-> 1000, meanvol |-> -2, std14 |-> NaN,
            adx |-> Num(25000), coral |-> NaN, stc |-> NaN,
            fails |-> {}, pct |-> Num(1500)]
      [] id = "mid" ->
           [bars |-> 30, nullmax |-> 0, nullmean |-> 0, cols |-> OHLCV,
            minprice |-> 1000, meanvol |-> 2000, std14 |-> Num(20),
            adx |-> Num(25000), coral |-> Num(100), stc |-> Num(12000),
            fails |-> {}, pct |-> Num(1500)]
      [] id = "short" ->
           [bars |-> 5, nullmax |-> 0, nullmean |-> 0, cols |-> OHLCV,
            minprice |-> 1000, meanvol |-> 2000, std14 |-> Num(20),
            adx |-> Num(25000), coral |-> Num(100), stc |-> Num(12000),
            fails |-> {}, pct |-> Num(1500)]
      [] id = "nulls" ->
           [bars |-> 97, nullmax |-> 25, nullmean |-> 5, cols |-> OHLCV,
            minprice |-> 1000, meanvol |-> 2000, std14 |-> Num(20),
            adx |-> Num(25000), coral |-> Num(100), stc |-> Num(12000),
            fails |-> {}, pct |-> Num(1500)]
      [] id = "nonpos" ->
           [bars |-> 97, nullmax |-> 0, nullmean |-> 0, cols |-> OHLCV,
            minprice |-> 0, meanvol |-> 2000, std14 |-> NaN,
            adx |-> Num(25000), coral |-> Num(100), stc |-> Num(12000),
            fails |-> {}, pct |-> Num(1500)]
      [] id = "novolume" ->
           [bars |-> 97, nullmax |-> 0, nullmean |-> 0,
            cols |-> OHLCV \ {"volume"},
            minprice |-> 1000, meanvol |-> 0, std14 |-> Num(20),
            adx |-> Num(25000), coral |-> Num(100), stc |-> Num(12000),
            fails |-> {}, pct |-> Num(1500)]
      [] OTHER ->
           \* "empty": the frame built from an empty JSON list
           [bars |-> 0, nullmax |-> 0, nullmean |-> 0, cols |-> OHLCV,
            minprice |-> 1000, meanvol |-> 0, std14 |-> NaN,
            adx |-> NaN, coral |-> NaN, stc |-> NaN,
            fails |-> {}, pct |-> Num(1500)]

SeriesIds ==
    {"good", "hot", "calm", "negvol", "voidvol", "mid", "short", "nulls",
     "nonpos", "novolume", "empty"}

\* --------------------------------------------------------- analysis engine
Min(a, b) == IF a <= b THEN a ELSE b

Max(a, b) == IF a >= b THEN a ELSE b

RECURSIVE ilog2(_)
ilog2(n) == IF n <= 1 THEN 0 ELSE 1 + ilog2(n \div 2)

\* np.log1p of a mean volume given in halves, result in milli:
\* NaN below -1, -inf at -1, negative on (-1, 0), 0 at 0.
log1p(h) ==
    CASE h < -2 -> NaN
      [] h = -2 -> NegInf
      [] h = -1 -> Num(-693)
      [] h = 0 -> Num(0)
      [] h = 2000 -> Num(6909)
      [] h = 2000000000 -> Num(20723)
      [] OTHER -> Num(693 * ilog2(1 + h \div 2))

\* sqrt(periods per year) by timeframe, milli; unknown timeframes use '1d'
timeframe_multipliers(tf) ==
    CASE tf = "1m" -> 724983
      [] tf = "5m" -> 324222
      [] tf = "15m" -> 187190
      [] tf = "1h" -> 93594
      [] tf = "4h" -> 46797
      [] OTHER -> 19105

calculate_volatility(df, tf) ==
    IF "volatility" \in df.fails THEN Num(0)
    ELSE IF isna(df.std14) THEN Num(0)
    ELSE IF isfinite(df.std14)
         THEN Num((df.std14.v * timeframe_multipliers(tf)) \div 1000)
         ELSE df.std14

\* the coral calculator without its try/except
calculate_coral_score_noexcept(df) ==
    IF df.bars < 20 THEN Num(0)
    ELSE IF "coral" \in df.fails THEN Raised
    ELSE IF isna(df.coral) THEN Num(0) ELSE df.coral

calculate_coral_score(df) ==
    IF df.bars < 20 THEN Num(0)
    ELSE IF "coral" \in df.fails THEN Num(0)
    ELSE IF isna(df.coral) THEN Num(0) ELSE df.coral

calculate_stc_score(df) ==
    IF df.bars < 50 THEN Num(0)
    ELSE IF "stc" \in df.fails THEN Num(0)
    ELSE IF Min(10, df.bars \div 5) < 2 THEN Num(0)
    ELSE IF isna(df.stc) THEN Num(0) ELSE df.stc

\* the gate with the null test written >= instead of >
check_data_quality_ge(df) ==
    IF df.bars = 0 THEN FALSE
    ELSE IF df.bars * 100 < df.bars * min_data_quality_pct THEN FALSE
    ELSE IF df.nullmax >= max_null_percentage_pct THEN FALSE
    ELSE IF ~(OHLCV \subseteq df.cols) THEN FALSE
    ELSE IF df.minprice <= 0 THEN FALSE
    ELSE TRUE

check_data_quality(df) ==
    IF df.bars = 0 THEN FALSE
    ELSE IF df.bars * 100 < df.bars * min_data_quality_pct THEN FALSE
    ELSE IF df.nullmax > max_null_percentage_pct THEN FALSE
    ELSE IF ~(OHLCV \subseteq df.cols) THEN FALSE
    ELSE IF df.minprice <= 0 THEN FALSE
    ELSE TRUE

\* the final loop with the np.isfinite test left out
finite_or_zero_nanonly(x) == IF isna(x) THEN Num(0) ELSE x

\* the loop at the end of analyze_dataframe on one value: NaN and
\* infinities become 0.0
finite_or_zero(x) == IF isna(x) \/ ~isfinite(x) THEN Num(0) ELSE x

\* the same, as the fixed-point number the result holds
sanitize(x) == finite_or_zero(x).v

\* a failure value of analyze_dataframe / analyze_pair (Python None)
None == [none |-> TRUE]

\* the float metrics of analyze_dataframe's result dict after its final loop
metric_values(df) ==
    LET trend_strength ==
            IF "adx" \in df.fails
            THEN IF isna(df.pct) THEN Num(0) ELSE df.pct
            ELSE IF isna(df.adx) THEN Num(0) ELSE df.adx
        lg == log1p(df.meanvol)
        volume_score ==
            IF "volume" \in df.fails THEN Num(0)
            ELSE IF isna(lg) THEN Num(0) ELSE lg
    IN [volatility |-> finite_or_zero(calculate_volatility(df, engine_timeframe)),
        trend_strength |-> finite_or_zero(trend_strength),
        volume_score |-> finite_or_zero(volume_score),
        coral_score |-> finite_or_zero(calculate_coral_score(df)),
        stc_score |-> finite_or_zero(calculate_stc_score(df)),
        data_quality |-> finite_or_zero(Num((100 - df.nullmean) * 10))]

\* an exception leaves one of the calculators called while the result dict
\* is built
propagates(df) ==
    \E x \in {calculate_volatility(df, engine_timeframe),
              calculate_coral_score(df), calculate_stc_score(df)} :
        x = Raised

\* fault "engine": an exception inside analyze_dataframe outside the inner
\* handlers; it is caught by the function's own handler, as is one that
\* leaves a calculator.
analyze_dataframe(df, pair, fault) ==
    IF fault = "engine" THEN None
    ELSE IF ~check_data_quality(df) THEN None
    ELSE IF propagates(df) THEN None
    ELSE LET m == metric_values(df)
         IN [pair |-> pair,
             volatility |-> m.volatility.v,
             trend_strength |-> m.trend_strength.v,
             volume_score |-> m.volume_score.v,
             coral_score |-> m.coral_score.v,
             stc_score |-> m.stc_score.v,
             data_points |-> df.bars,
             data_quality |-> (100 - df.nullmean) * 10,
             timeframe |-> engine_timeframe]

\* ------------------------------------------------------------ data manager
\* A candle file of the local store: its size in bytes and what it holds,
\* a series id (a JSON list of candles; "empty" is the list []), "dict"
\* (valid JSON that is no list) or "corrupt" (no JSON).
Absent == [exists |-> FALSE, size |-> 0, content |-> "corrupt"]

File(size, content) == [exists |-> TRUE, size |-> size, content |-> content]

\* what one run of the download subprocess does: exits non-zero ("error"),
\* never exits ("hang"), or exits 0 leaving `file` in the store ("ok")
DlError == [kind |-> "error", file |-> Absent]

DlHang == [kind |-> "hang", file |-> Absent]

DlOk(file) == [kind |-> "ok", file |-> file]

verify_downloaded_file(file) ==
    IF ~file.exists THEN FALSE
    ELSE IF file.size < min_file_size THEN FALSE
    ELSE IF file.content = "corrupt" THEN FALSE
    ELSE IF file.content = "dict" \/ file.content = "empty" THEN FALSE
    ELSE TRUE

\* the id of the loaded frame, or "None"
load_data_safely(file) ==
    IF ~file.exists THEN "None"
    ELSE IF file.content \in SeriesIds THEN file.content
    ELSE "None"

\* the download taken as good as soon as the subprocess exits with 0
download_with_freqtrade_unverified(file, out) ==
    IF out.kind = "error" THEN [ok |-> FALSE, file |-> file]
    ELSE [ok |-> TRUE, file |-> out.file]

\* [ok, file]: the return value and the file the store holds afterwards
download_with_freqtrade(file, out) ==
    IF out.kind = "error" THEN [ok |-> FALSE, file |-> file]
    ELSE [ok |-> verify_downloaded_file(out.file), file |-> out.file]

\* a pass that downloads before it looks at the local file
ensure_attempt_download_first(file, out, days) ==
    LET d == download_with_freqtrade(file, out)
        df2 == load_data_safely(d.file)
    IN IF d.ok /\ df2 # "None"
       THEN [df |-> df2, file |-> d.file, dl |-> TRUE]
       ELSE [df |-> "None", file |-> d.file, dl |-> TRUE]

\* One pass of the loop of ensure_pair_data on the pair's file, `out` being
\* what the download does if it is invoked.  df is the frame returned
\* ("None": the pass returns nothing and the loop goes on), dl tells whether
\* the download was invoked.
ensure_attempt(file, out, days) ==
    LET df == load_data_safely(file)
    IN IF df # "None" /\ Series(df).bars >= days
       THEN [df |-> df, file |-> file, dl |-> FALSE]
       ELSE LET d == download_with_freqtrade(file, out)
                df2 == load_data_safely(d.file)
            IN IF d.ok /\ df2 # "None"
               THEN [df |-> df2, file |-> d.file, dl |-> TRUE]
               ELSE [df |-> "None", file |-> d.file, dl |-> TRUE]

\* the loop stopping one pass early
loop_continues_short(df, attempt) == df = "None" /\ attempt < max_retries - 1

\* for attempt in range(1, max_retries + 1): a pass that returned no frame
\* is followed by another one while attempt < max_retries
loop_continues(df, attempt) == df = "None" /\ attempt < max_retries

\* the sleep of the except branch of a pass that raised
backoff_wait(attempt) == Min(10 * attempt, 30)

\* --------------------------------------------------------------- analyzer
\* The part of analyze_pair after ensure_pair_data has returned `df`.
analyze_loaded(df, pair, fault) ==
    IF df = "None" \/ Series(df).bars < min_data_points THEN None
    ELSE analyze_dataframe(Series(df), pair, fault)

\* composite score of one result, times ScoreScale
composite_score(res) ==
    6 * Min(res.trend_strength, 100000)
    + 100 * Min(res.volatility, 5000)
    + 20 * Min(res.volume_score, 20000)
    + 300 * Min(res.coral_score, 1000)
    + 2 * Min(res.stc_score, 100000)

\* list.sort(key=composite_score, reverse=True): stable, descending
RECURSIVE insert_desc(_, _)
insert_desc(sorted, r) ==
    IF sorted = <<>> THEN <<r>>
    ELSE IF Head(sorted).composite_score >= r.composite_score
         THEN <<Head(sorted)>> \o insert_desc(Tail(sorted), r)
         ELSE <<r>> \o sorted

RECURSIVE sort_desc(_)
sort_desc(rs) ==
    IF rs = <<>> THEN <<>>
    ELSE insert_desc(sort_desc(SubSeq(rs, 1, Len(rs) - 1)), rs[Len(rs)])

\* analyze_pair without its except clause: the exception leaves the task
analyze_pair_return_noexcept(raised, value) ==
    IF raised THEN [st |-> "raised", ret |-> None]
    ELSE [st |-> "done", ret |-> value]

\* the try/except of analyze_pair: what the task's future ends with when
\* the body raised (`raised`) or returned `value`
analyze_pair_return(raised, value) ==
    IF raised THEN [st |-> "done", ret |-> None]
    ELSE [st |-> "done", ret |-> value]

\* the loop body with the else branch of "if result" missing
collect_one_drop(res, failed, pair, t) ==
    IF t.st = "raised"
    THEN [results |-> res, failed_pairs |-> Append(failed, [pair |-> pair])]
    ELSE IF t.ret # None
    THEN [results |-> Append(res, t.ret), failed_pairs |-> failed]
    ELSE [results |-> res, failed_pairs |-> failed]

\* body of the as_completed loop for one finished future `t` of `pair`:
\* the lists after it.  An entry of failed_pairs is the pair and nothing else.
collect_one(res, failed, pair, t) ==
    IF t.st = "raised"
    THEN [results |-> res, failed_pairs |-> Append(failed, [pair |-> pair])]
    ELSE IF t.ret # None
    THEN [results |-> Append(res, t.ret), failed_pairs |-> failed]
    ELSE [results |-> res, failed_pairs |-> Append(failed, [pair |-> pair])]

\* scoring that shares each score out among the results of the run
scored_relative(res) ==
    [i \in 1..Len(res) |->
             [pair |-> res[i].pair,
              volatility |-> res[i].volatility,
              trend_strength |-> res[i].trend_strength,
              volume_score |-> res[i].volume_score,
              coral_score |-> res[i].coral_score,
              stc_score |-> res[i].stc_score,
              data_points |-> res[i].data_points,
              data_quality |-> res[i].data_quality,
              timeframe |-> res[i].timeframe,
              composite_score |-> composite_score(res[i]) \div Len(res)]]

\* the scored results of run_analysis before they are sorted
scored(res) ==
    [i \in 1..Len(res) |->
             [pair |-> res[i].pair,
              volatility |-> res[i].volatility,
              trend_strength |-> res[i].trend_strength,
              volume_score |-> res[i].volume_score,
              coral_score |-> res[i].coral_score,
              stc_score |-> res[i].stc_score,
              data_points |-> res[i].data_points,
              data_quality |-> res[i].data_quality,
              timeframe |-> res[i].timeframe,
              composite_score |-> composite_score(res[i])]]

\* scoring without the final sort
rank_unsorted(res) == IF res # <<>> THEN scored(res) ELSE res

\* scoring and ranking at the end of run_analysis
rank(res) == IF res # <<>> THEN sort_desc(scored(res)) ELSE res

\* ensure_pair_data run on its own from pass `attempt` on: the frame it
\* returns, "None" after max_retries passes without one, "hang" when a
\* download run never exits.  dl lists what the next download runs do.
RECURSIVE ensure_pair_data(_, _, _, _)
ensure_pair_data(file, dl, attempt, days) ==
    IF attempt > max_retries THEN "None"
    ELSE LET out == IF dl # <<>> THEN Head(dl) ELSE DlError
             a == ensure_attempt(file, out, days)
         IN IF a.dl /\ out.kind = "hang" THEN "hang"
            ELSE IF a.df # "None" THEN a.df
            ELSE ensure_pair_data(a.file,
                     IF a.dl /\ dl # <<>> THEN Tail(dl) ELSE dl,
                     attempt + 1, days)

\* the value of a call that never returns
Hang == [hang |-> TRUE]

\* analyze_pair run on its own on what the environment holds for the pair
analyze_pair(pair, sc) ==
    IF sc.fault = "outer" THEN analyze_pair_return(TRUE, None).ret
    ELSE IF sc.fault = "inner"
    THEN analyze_pair_return(FALSE, analyze_loaded("None", pair, sc.fault)).ret
    ELSE LET df == ensure_pair_data(sc.local, sc.dl, 1,
                                    days_to_analyze + extra_days)
         IN IF df = "hang" THEN Hang
            ELSE analyze_pair_return(FALSE,
                     analyze_loaded(df, pair, sc.fault)).ret

\* ------------------------------------------------------------------ inputs
\* What the environment holds for one pair: the file of the local store
\* before the run, what the successive download runs do, and where, if
\* anywhere, analysing the pair raises ("outer": in ensure_pair_data outside
\* its try block; "inner": inside the try block of every pass of its loop;
\* "engine": in analyze_dataframe).
Scenario(local, dl, fault) == [local |-> local, dl |-> dl, fault |-> fault]

Scenarios ==
    { Scenario(File(4096, "good"), <<>>, "none"),
      Scenario(File(4096, "hot"), <<>>, "none"),
      Scenario(File(4096, "calm"), <<>>, "none"),
      Scenario(File(4096, "negvol"), <<>>, "none"),
      Scenario(File(4096, "nulls"), <<>>, "none"),
      Scenario(Absent, <<DlOk(File(300, "short"))>>, "none"),
      Scenario(Absent, <<DlError, DlOk(File(40, "corrupt")), DlError>>, "none"),
      Scenario(Absent, <<DlOk(File(80, "short"))>>, "none"),
      Scenario(File(2048, "mid"), <<DlError, DlOk(File(4096, "good"))>>, "none"),
      Scenario(Absent, <<DlHang>>, "none"),
      Scenario(File(4096, "good"), <<>>, "outer"),
      Scenario(File(4096, "good"), <<>>, "engine") }

DefaultScenario == Scenario(Absent, <<>>, "none")

\* sequences of pairwise distinct pairs
Distinct(seq) == \A i, j \in 1..Len(seq) : i # j => seq[i] # seq[j]

Universes ==
    {u \in UNION {[1..n -> PairIds] : n \in 0..MaxPairs} : Distinct(u)}

Range(seq) == {seq[i] : i \in 1..Len(seq)}

\* ------------------------------------------------------------------- state
VARIABLES
    markets,      \* what exchange.get_markets() does: [raises, pairs]
    pairs,        \* the universe _get_valid_pairs returns
    scen,         \* pair -> Scenario (fixed during the run)
    max_workers,  \* size of the thread pool
    store,        \* pair -> candle file of the local store
    dlcount,      \* pair -> download runs made so far
    task,         \* index of pairs -> state of its future and of its work item
    queue,        \* work queue of the pool: indices not yet picked up
    collected,    \* indices whose future the as_completed loop has handled
    results,      \* run_analysis's list results
    failed_pairs, \* run_analysis's list failed_pairs
    pc,           \* position of main: "idle", "collecting", "returned",
                  \* "interrupted", "exit0", "exit1", "exit130"; "probe"
                  \* when a function of the engine is run on its own
    waited,       \* seconds the coordinator has been blocked with no task able to move
    report,       \* the report main holds, None before save_results
    persisted,    \* the report as save_results wrote it to the output files
    args,         \* the command line: [timeframe, config, pairs_to_analyze]
    probe         \* [fn, df, done, out]: a call of an engine function

vars ==
    <<markets, pairs, scen, max_workers, store, dlcount, task, queue,
      collected, results, failed_pairs, pc, waited, report, probe, args,
      persisted>>

\* no engine function is run on its own
NoProbe == [fn |-> "none", df |-> Series("empty"), done |-> FALSE, out |-> None]

\* what get_markets tells about a symbol: whether it ends with
\* '/<quote currency>', and its flags active, spot, margin, future
MarketInfo(quote, active, spot, margin, future) ==
    [quote |-> quote, active |-> active, spot |-> spot, margin |-> margin,
     future |-> future]

Tradable == MarketInfo(TRUE, TRUE, TRUE, FALSE, FALSE)

\* a tradable symbol, and the symbols that miss one condition each
MarketInfos ==
    {Tradable,
     MarketInfo(FALSE, TRUE, TRUE, FALSE, FALSE),
     MarketInfo(TRUE, FALSE, TRUE, FALSE, FALSE),
     MarketInfo(TRUE, TRUE, FALSE, FALSE, FALSE),
     MarketInfo(TRUE, TRUE, TRUE, TRUE, FALSE),
     MarketInfo(TRUE, TRUE, TRUE, FALSE, TRUE)}

\* the listing of the exchange: get_markets raises, or lists symbols, here
\* tradable pairs of the quote currency only
Listings ==
    {[raises |-> TRUE, pairs |-> <<>>, info |-> [p \in PairIds |-> Tradable]]}
    \cup {[raises |-> FALSE, pairs |-> u, info |-> [p \in PairIds |-> Tradable]] :
             u \in Universes}

\* the command line: --timeframe, whether --config / --use-configs is given,
\* and the pairs main read from the config pairlists for the quote currency
\* (pairs_to_analyze, <<>> for None and for an empty list)
Args(timeframe, config, pairs_to_analyze) ==
    [timeframe |-> timeframe, config |-> config,
     pairs_to_analyze |-> pairs_to_analyze]

\* timeframes given on the command line
Timeframes == {"1d", "4h"}

\* the state of the program before main calls run_analysis
Fresh ==
    /\ pairs = <<>>
    /\ store = [p \in PairIds |-> scen[p].local]
    /\ dlcount = [p \in PairIds |-> 0]
    /\ task = <<>>
    /\ queue = <<>>
    /\ collected = {}
    /\ results = <<>>
    /\ failed_pairs = <<>>
    /\ waited = 0
    /\ report = None
    /\ persisted = None

Init ==
    /\ markets \in Listings
    /\ scen \in [PairIds -> Scenarios \cup {DefaultScenario}]
    /\ \A p \in PairIds :
          (scen[p] = DefaultScenario) <=> (p \notin Range(markets.pairs))
    /\ max_workers \in 1..MaxWorkers
    /\ args \in {Args(tf, FALSE, <<>>) : tf \in Timeframes}
    /\ Fresh
    /\ pc = "idle"
    /\ probe = NoProbe

\* the condition of the loop of _get_valid_pairs on one market
valid_market(info) ==
    info.quote /\ info.active /\ info.spot /\ ~info.margin /\ ~info.future

\* _get_valid_pairs: the listed symbols that pass the condition, in the
\* order of the listing; [] when get_markets raises
get_valid_pairs(m) ==
    IF m.raises THEN <<>>
    ELSE SelectSeq(m.pairs, LAMBDA p : valid_market(m.info[p]))

\* the universe run_analysis works on: main replaces _get_valid_pairs by
\* the config pairs when there are any
universe(a, m) ==
    IF a.pairs_to_analyze # <<>> THEN a.pairs_to_analyze
    ELSE get_valid_pairs(m)

\* the future and the work item of a task just submitted.  runs counts the
\* times a worker executed the item, pending is set when an interrupt finds
\* the item still in the queue, waits adds up the back-off sleeps, df is
\* what ensure_pair_data returned.
Submitted ==
    [st |-> "queued", attempt |-> 0, ret |-> None, df |-> "None",
     runs |-> 0, pending |-> FALSE, waits |-> 0]

\* main up to the submission of the tasks in run_analysis: main returns 1
\* when the configs asked for hold no pair of the quote currency
RunAnalysisBegin ==
    /\ pc = "idle"
    /\ IF args.config /\ args.pairs_to_analyze = <<>>
       THEN /\ pc' = "exit1"
            /\ UNCHANGED <<pairs, task, queue>>
       ELSE /\ pairs' = universe(args, markets)
            /\ IF pairs' = <<>>
               THEN /\ pc' = "returned"
                    /\ UNCHANGED <<task, queue>>
               ELSE /\ task' = [i \in 1..Len(pairs') |-> Submitted]
                    /\ queue' = [i \in 1..Len(pairs') |-> i]
                    /\ pc' = "collecting"
    /\ UNCHANGED <<markets, scen, max_workers, store, dlcount, collected,
                   results, failed_pairs, waited, report, probe,
                   args, persisted>>

Busy == {i \in 1..Len(task) : task[i].st \in {"running", "hung"}}

\* a pool that starts a thread for every work item
worker_free_unbounded(busy, workers) == busy <= busy + workers

\* ThreadPoolExecutor(max_workers): a thread is idle or may still be started
worker_free(busy, workers) == busy < workers

\* a free worker thread takes the oldest work item; the threads go on doing
\* so while the pool is shut down with wait=True after an interrupt
StartTask ==
    /\ pc \in {"collecting", "interrupted"}
    /\ queue # <<>>
    /\ worker_free(Cardinality(Busy), max_workers)
    /\ task' = [task EXCEPT ![Head(queue)].st = "running",
                            ![Head(queue)].attempt = 1,
                            ![Head(queue)].runs = @ + 1]
    /\ queue' = Tail(queue)
    /\ UNCHANGED <<markets, pairs, scen, max_workers, store, dlcount,
                   collected, results, failed_pairs, pc, waited, report,
                   probe,
                   args, persisted>>

\* the download runs of all pairs drawing on one shared position
NextDownload_shared(p) ==
    LET RECURSIVE total(_)
        total(n) == IF n = 0 THEN 0 ELSE dlcount[n] + total(n - 1)
    IN IF total(MaxPairs) < Len(scen[p].dl) THEN scen[p].dl[total(MaxPairs) + 1]
       ELSE DlError

\* what the next download run for pair p does
NextDownload(p) ==
    IF dlcount[p] < Len(scen[p].dl) THEN scen[p].dl[dlcount[p] + 1]
    ELSE DlError

\* the future of a task whose analyze_pair ended with `r`, ensure_pair_data
\* having returned `df`
task_end(t, r, df) == [t EXCEPT !.st = r.st, !.ret = r.ret, !.df = df]

\* One pass of the retry loop of ensure_pair_data inside task i and, when
\* the loop ends with it, the rest of analyze_pair.
Attempt(i) ==
    /\ i \in 1..Len(task)
    /\ task[i].st = "running"
    /\ LET p == pairs[i]
           out == NextDownload(p)
           days == days_to_analyze + extra_days
           inner == scen[p].fault = "inner"
           a == IF inner THEN [df |-> "None", file |-> store[p], dl |-> FALSE]
                ELSE ensure_attempt(store[p], out, days)
           slept == IF inner /\ task[i].attempt < max_retries
                    THEN backoff_wait(task[i].attempt) ELSE 0
       IN IF scen[p].fault = "outer"
          THEN /\ task' = [task EXCEPT ![i] =
                     task_end(@, analyze_pair_return(TRUE, None), "None")]
               /\ UNCHANGED <<store, dlcount>>
          ELSE IF a.dl /\ out.kind = "hang"
          THEN /\ task' = [task EXCEPT ![i].st = "hung"]
               /\ dlcount' = [dlcount EXCEPT ![p] = @ + 1]
               /\ UNCHANGED store
          ELSE /\ store' = [store EXCEPT ![p] = a.file]
               /\ dlcount' = [dlcount EXCEPT ![p] = IF a.dl THEN @ + 1 ELSE @]
               /\ IF loop_continues(a.df, task[i].attempt)
                  THEN task' = [task EXCEPT ![i].attempt = @ + 1,
                                            ![i].waits = @ + slept]
                  ELSE task' = [task EXCEPT ![i] =
                           task_end(@, analyze_pair_return(FALSE,
                               analyze_loaded(a.df, p, scen[p].fault)), a.df)]
    /\ UNCHANGED <<markets, pairs, scen, max_workers, queue, collected,
                   results, failed_pairs, pc, waited, report, probe,
                   args, persisted>>

\* the as_completed loop handles one finished future
Collect(i) ==
    /\ pc = "collecting"
    /\ i \in 1..Len(task)
    /\ i \notin collected
    /\ task[i].st \in {"done", "raised"}
    /\ LET c == collect_one(results, failed_pairs, pairs[i], task[i])
       IN /\ results' = c.results
          /\ failed_pairs' = c.failed_pairs
    /\ collected' = collected \cup {i}
    /\ UNCHANGED <<markets, pairs, scen, max_workers, store, dlcount, task,
                   queue, pc, waited, report, probe,
                   args, persisted>>

\* every future has been handled: the pool is shut down, the results are
\* scored and sorted, run_analysis returns
Finish ==
    /\ pc = "collecting"
    /\ collected = 1..Len(task)
    /\ results' = rank(results)
    /\ pc' = "returned"
    /\ UNCHANGED <<markets, pairs, scen, max_workers, store, dlcount, task,
                   queue, collected, failed_pairs, waited, report, probe,
                   args, persisted>>

\* no thread can take a step: every future not yet handled is hung, or is
\* queued behind workers that are all hung
Blocked ==
    /\ pc = "collecting"
    /\ collected # 1..Len(task)
    /\ \A i \in 1..Len(task) :
          /\ task[i].st # "running"
          /\ task[i].st \in {"done", "raised"} => i \in collected
    /\ queue # <<>> => Cardinality(Busy) >= max_workers

\* time passes while the coordinator waits in as_completed
Tick ==
    /\ Blocked
    /\ waited < MaxTicks * result_timeout
    /\ waited' = waited + result_timeout
    /\ UNCHANGED <<markets, pairs, scen, max_workers, store, dlcount, task,
                   queue, collected, results, failed_pairs, pc, report,
                   probe,
                   args, persisted>>

\* save_results with every result listed in top_pairs
save_results_untruncated(res, failed, tf) ==
    [metadata |-> [timeframe |-> tf,
                   successful_pairs |-> Len(res),
                   failed_pairs |-> IF failed # <<>> THEN Len(failed) ELSE 0],
     results |-> res,
     failed_pairs |-> IF failed # <<>> THEN failed ELSE <<>>,
     top_pairs |-> IF res # <<>>
                   THEN [i \in 1..Len(res) |-> res[i].pair]
                   ELSE <<>>]

\* save_results: the report written to the output directories (the fields
\* that depend on the run only through results, failed_pairs and the
\* analyzer's timeframe attribute tf)
save_results(res, failed, tf) ==
    [metadata |-> [timeframe |-> tf,
                   successful_pairs |-> Len(res),
                   failed_pairs |-> IF failed # <<>> THEN Len(failed) ELSE 0],
     results |-> res,
     failed_pairs |-> IF failed # <<>> THEN failed ELSE <<>>,
     top_pairs |-> IF res # <<>>
                   THEN [i \in 1..Min(Len(res), top_n) |-> res[i].pair]
                   ELSE <<>>]

\* main saving a report only when there are results
should_save_results_only(res, failed) == res # <<>> \/ failed # failed

\* main's test "if results or failed_pairs"
should_save(res, failed) == res # <<>> \/ failed # <<>>

pair_source(a) ==
    IF a.config THEN "Config" ELSE "Exchange (all active pairs)"

\* main adds the pairlist metadata to the report save_results returned
add_pairlist_metadata(rep, a) ==
    [rep EXCEPT !.metadata =
        [timeframe |-> @.timeframe,
         successful_pairs |-> @.successful_pairs,
         failed_pairs |-> @.failed_pairs,
         pair_source |-> pair_source(a),
         pairlist_config |-> a.config]]

\* main after run_analysis has returned: the report is saved and main
\* returns 0 when a list is non-empty, otherwise main logs an error and
\* returns 1
MainReport ==
    /\ pc = "returned"
    /\ IF should_save(results, failed_pairs)
       THEN /\ persisted' = save_results(results, failed_pairs, args.timeframe)
            /\ report' = add_pairlist_metadata(persisted', args)
            /\ pc' = "exit0"
       ELSE /\ pc' = "exit1"
            /\ UNCHANGED <<report, persisted>>
    /\ UNCHANGED <<markets, pairs, scen, max_workers, store, dlcount, task,
                   queue, collected, results, failed_pairs, waited, probe,
                   args>>

Next ==
    \/ RunAnalysisBegin
    \/ StartTask
    \/ \E i \in 1..MaxPairs : Attempt(i)
    \/ \E i \in 1..MaxPairs : Collect(i)
    \/ Finish
    \/ Tick
    \/ MainReport

Spec == Init /\ [][Next]_vars

\* ----------------------------------------------------------- interruption
\* KeyboardInterrupt reaches the main thread inside the as_completed loop:
\* the loop is left and the with statement shuts the pool down (wait=True)
Interrupt ==
    /\ pc = "collecting"
    /\ pc' = "interrupted"
    /\ task' = [i \in 1..Len(task) |->
                   [task[i] EXCEPT !.pending = (task[i].st = "queued")]]
    /\ UNCHANGED <<markets, pairs, scen, max_workers, store, dlcount, queue,
                   collected, results, failed_pairs, waited, report, probe,
                   args, persisted>>

\* shutdown(wait=True) has joined every worker thread: the exception
\* reaches main, which returns 130
ExitInterrupted ==
    /\ pc = "interrupted"
    /\ queue = <<>>
    /\ Busy = {}
    /\ pc' = "exit130"
    /\ UNCHANGED <<markets, pairs, scen, max_workers, store, dlcount, task,
                   queue, collected, results, failed_pairs, waited, report,
                   probe,
                   args, persisted>>

NextInt == Next \/ Interrupt \/ ExitInterrupted

SpecInt == Init /\ [][NextInt]_vars

\* ------------------------------------------------- acquisition of one pair
\* a JSON list holds at least 14 bytes per candle
Realistic(file) ==
    file.content \in SeriesIds => file.size >= 14 * Series(file.content).bars

AcqFiles ==
    {f \in {Absent, File(80, "corrupt"), File(2, "empty"), File(300, "dict"),
            File(80, "short"), File(min_file_size, "short"),
            File(2048, "mid"), File(4096, "good")} : Realistic(f)}

AcqOutcomes == {DlError, DlHang} \cup {DlOk(f) : f \in AcqFiles}

\* every local file with every course of max_retries download runs, and
\* every local file with each pass raising inside the try block ("inner")
AcqScenarios ==
    {Scenario(f, d, "none") : f \in AcqFiles, d \in [1..max_retries -> AcqOutcomes]}
    \cup {Scenario(f, <<>>, "inner") : f \in AcqFiles}

\* a run over the universe of one pair
InitAcq ==
    /\ markets = [raises |-> FALSE, pairs |-> <<1>>,
                  info |-> [p \in PairIds |-> Tradable]]
    /\ args = Args("1d", FALSE, <<>>)
    /\ \E s \in AcqScenarios :
          scen = [p \in PairIds |-> IF p = 1 THEN s ELSE DefaultScenario]
    /\ max_workers = 1
    /\ Fresh
    /\ pc = "idle"
    /\ probe = NoProbe

SpecAcq == InitAcq /\ [][Next]_vars

\* ------------------------------------------------ the engine on its own
\* the column sets a frame can have: all of OHLCV, or one column missing
ColumnSets == {OHLCV} \cup {OHLCV \ {c} : c \in OHLCV}

\* frames for the gate: row counts, exact null percentages of the fullest
\* column, column sets, lowest prices (in milli)
GateSeries ==
    {[bars |-> b, nullmax |-> n, nullmean |-> n \div 5, cols |-> c,
      minprice |-> m, meanvol |-> 2000, std14 |-> Num(20),
      adx |-> Num(25000), coral |-> Num(300), stc |-> Num(4000),
      fails |-> {}, pct |-> Num(1500)] :
        b \in {0, 5, 100}, n \in {0, 19, 20, 21, 40, 100},
        c \in ColumnSets, m \in {-1000, 0, 1}}

\* the percentage n is the fraction k/bars of some column
ExactNulls(df) ==
    IF df.bars = 0 THEN df.nullmax = 0
    ELSE \E k \in 0..df.bars : df.nullmax * df.bars = 100 * k

Calculators == {"volatility", "adx", "volume", "coral", "stc"}

\* no calculator raises, exactly one does, or two do
KernelFailures ==
    {{}} \cup {{c} : c \in Calculators} \cup {{"adx", "stc"}}

\* frames for the metrics: what the kernels compute may be a number, NaN
\* or an infinity
EngineSeries ==
    {[bars |-> b, nullmax |-> 0, nullmean |-> 0, cols |-> OHLCV,
      minprice |-> m, meanvol |-> mv, std14 |-> sd, adx |-> ad,
      coral |-> co, stc |-> st, fails |-> fl, pct |-> pc_] :
        b \in {5, 30, 100}, m \in {0, 1}, mv \in {-4, -2, 0, 2000},
        sd \in {Num(20), NaN, PosInf}, ad \in {Num(25000), NaN, PosInf, NegInf},
        co \in {Num(300), NaN}, st \in {Num(4000), NaN, PosInf},
        fl \in KernelFailures, pc_ \in {Num(1500), NaN}}

Probes ==
    {[fn |-> "check_data_quality", df |-> d, done |-> FALSE, out |-> None] :
        d \in {g \in GateSeries : ExactNulls(g)}}
    \cup {[fn |-> "analyze_dataframe", df |-> d, done |-> FALSE, out |-> None] :
        d \in EngineSeries}

InitEngine ==
    /\ markets = [raises |-> FALSE, pairs |-> <<>>,
                  info |-> [p \in PairIds |-> Tradable]]
    /\ args = Args("1d", FALSE, <<>>)
    /\ scen = [p \in PairIds |-> DefaultScenario]
    /\ max_workers = 1
    /\ Fresh
    /\ pc = "probe"
    /\ probe \in Probes

\* check_data_quality is called on the frame; its try/except turns every
\* exception into False, so the call returns a boolean
CallCheckDataQuality ==
    /\ pc = "probe"
    /\ probe.fn = "check_data_quality"
    /\ ~probe.done
    /\ probe' = [probe EXCEPT !.done = TRUE,
                     !.out = [accepted |-> check_data_quality(probe.df),
                              raised |-> FALSE]]
    /\ UNCHANGED <<markets, pairs, scen, max_workers, store, dlcount, task,
                   queue, collected, results, failed_pairs, pc, waited,
                   report,
                   args, persisted>>

\* analyze_dataframe is called on the frame: out holds the result and the
\* float values its final loop left in it
CallAnalyzeDataframe ==
    /\ pc = "probe"
    /\ probe.fn = "analyze_dataframe"
    /\ ~probe.done
    /\ probe' = [probe EXCEPT !.done = TRUE,
                     !.out = [result |-> analyze_dataframe(probe.df, 1, "none"),
                              metrics |-> metric_values(probe.df)]]
    /\ UNCHANGED <<markets, pairs, scen, max_workers, store, dlcount, task,
                   queue, collected, results, failed_pairs, pc, waited,
                   report,
                   args, persisted>>

NextEngine == CallCheckDataQuality \/ CallAnalyzeDataframe

SpecEngine == InitEngine /\ [][NextEngine]_vars

\* ---------------------------------------------- pairs from config pairlists
\* get_pairlist_by_config / get_combined_pairlist: sorted lists without
\* duplicates of the config pairs that end with '/<quote currency>'
ConfigPairlists(info) ==
    {u \in UNION {[1..n -> PairIds] : n \in 0..MaxPairs} :
        /\ \A i, j \in 1..Len(u) : i < j => u[i] < u[j]
        /\ \A i \in 1..Len(u) : info[u[i]].quote}

\* the candles are there, or the download never exits
CfgScenarios ==
    {Scenario(File(4096, "good"), <<>>, "none"),
     Scenario(Absent, <<DlHang>>, "none")}

\* runs on the pairs of the exchange or of the configs, the exchange listing
\* every symbol with any flags
InitCfg ==
    /\ \E info \in [PairIds -> MarketInfos] :
          /\ markets = [raises |-> FALSE, pairs |-> [i \in PairIds |-> i],
                        info |-> info]
          /\ args \in {Args("1d", FALSE, <<>>)}
                       \cup {Args("1d", TRUE, u) : u \in ConfigPairlists(info)}
    /\ scen \in [PairIds -> CfgScenarios]
    /\ max_workers = 1
    /\ Fresh
    /\ pc = "idle"
    /\ probe = NoProbe

SpecCfg == InitCfg /\ [][Next]_vars

\* ------------------------------------------------ save_results on its own
\* a ranked list of n results: pairwise distinct pairs, scores going down
RankedResults(n, k, s) ==
    [i \in 1..n |-> [pair |-> ((k + i * s) % 17) + 1,
                     composite_score |-> (MaxResults + 1 - i) * 1000]]

FailedLists == {<<>>, <<[pair |-> 18]>>, <<[pair |-> 19], [pair |-> 18]>>}

ReportProbes ==
    {[fn |-> "save_results",
      df |-> [results |-> RankedResults(n, k, s), failed_pairs |-> f],
      done |-> FALSE, out |-> None] :
        n \in 0..MaxResults, k \in 0..3, s \in 1..3, f \in FailedLists}

InitReport ==
    /\ markets = [raises |-> FALSE, pairs |-> <<>>,
                  info |-> [p \in PairIds |-> Tradable]]
    /\ args \in {Args(tf, FALSE, <<>>) : tf \in Timeframes}
    /\ scen = [p \in PairIds |-> DefaultScenario]
    /\ max_workers = 1
    /\ Fresh
    /\ pc = "probe"
    /\ probe \in ReportProbes

\* save_results is called with the lists of a finished run
CallSaveResults ==
    /\ pc = "probe"
    /\ probe.fn = "save_results"
    /\ ~probe.done
    /\ probe' = [probe EXCEPT !.done = TRUE,
                     !.out = save_results(probe.df.results,
                                 probe.df.failed_pairs, args.timeframe)]
    /\ UNCHANGED <<markets, pairs, scen, max_workers, store, dlcount, task,
                   queue, collected, results, failed_pairs, pc, waited,
                   report, args, persisted>>

SpecReport == InitReport /\ [][CallSaveResults]_vars

\* --------------------------------------------- candle file names per pair
\* A pair name is a sequence of characters, BASE "/" QUOTE; a file name is
\* a sequence of characters followed by the timeframe and ".json".
\* str.replace(old, new) for single characters
replace(str, old, new) ==
    [i \in 1..Len(str) |-> IF str[i] = old THEN new ELSE str[i]]

\* file names that put '_' for every separator of the pair
get_data_filenames_normalised(pair, tf) ==
    <<replace(replace(pair, "/", "_"), "-", "_") \o <<"-", tf, ".json">>,
      replace(pair, "/", "-") \o <<"-", tf, ".json">>>>

\* _get_data_filenames: the two candidate names of the pair's file
get_data_filenames(pair, tf) ==
    <<replace(pair, "/", "_") \o <<"-", tf, ".json">>,
      replace(pair, "/", "-") \o <<"-", tf, ".json">>>>

\* base currencies of up to MaxBaseLen characters, '_' and '-' among them
BaseNames == UNION {[1..n -> {"A", "_", "-"}] : n \in 1..MaxBaseLen}

\* pairs of the exchange: one '/', an alphanumeric quote currency
PairNames == {b \o <<"/", c>> : b \in BaseNames, c \in {"Q", "R"}}

FileProbes ==
    {[fn |-> "get_data_filenames", df |-> [p |-> x, q |-> y],
      done |-> FALSE, out |-> None] : x \in PairNames, y \in PairNames}

InitFiles ==
    /\ markets = [raises |-> FALSE, pairs |-> <<>>,
                  info |-> [p \in PairIds |-> Tradable]]
    /\ args = Args("1d", FALSE, <<>>)
    /\ scen = [p \in PairIds |-> DefaultScenario]
    /\ max_workers = 1
    /\ Fresh
    /\ pc = "probe"
    /\ probe \in FileProbes

\* the data manager names the candidate files of two pairs
CallGetDataFilenames ==
    /\ pc = "probe"
    /\ probe.fn = "get_data_filenames"
    /\ ~probe.done
    /\ probe' = [probe EXCEPT !.done = TRUE,
                     !.out = [p |-> get_data_filenames(probe.df.p,
                                        data_manager_timeframe),
                              q |-> get_data_filenames(probe.df.q,
                                        data_manager_timeframe)]]
    /\ UNCHANGED <<markets, pairs, scen, max_workers, store, dlcount, task,
                   queue, collected, results, failed_pairs, pc, waited,
                   report, args, persisted>>

SpecFiles == InitFiles /\ [][CallGetDataFilenames]_vars

\* -------------------------------------------------- pairlist generator
\* Scores and min_score are in milli.  The latest analysis file is absent
\* ("none"), unreadable ("corrupt") or holds results ("ok").
\* _get_analysis_filtered_pairs taking every analysed candidate as good
get_analysis_filtered_pairs_noscore(candidate_pairs, min_score, file) ==
    IF file.kind = "none" THEN candidate_pairs
    ELSE IF file.kind = "corrupt" THEN candidate_pairs
    ELSE LET good == SelectSeq(file.results,
                        LAMBDA r : r.composite_score >= 0
                                   /\ r.pair \in Range(candidate_pairs))
         IN [i \in 1..Len(good) |-> good[i].pair]

get_analysis_filtered_pairs(candidate_pairs, min_score, file) ==
    IF file.kind = "none" THEN candidate_pairs
    ELSE IF file.kind = "corrupt" THEN candidate_pairs
    ELSE LET good == SelectSeq(file.results,
                        LAMBDA r : r.composite_score >= min_score
                                   /\ r.pair \in Range(candidate_pairs))
         IN [i \in 1..Len(good) |-> good[i].pair]

\* list.sort(key=volume_24h, reverse=True): stable, descending
RECURSIVE insert_by_volume(_, _)
insert_by_volume(sorted, d) ==
    IF sorted = <<>> THEN <<d>>
    ELSE IF Head(sorted).volume_24h >= d.volume_24h
         THEN <<Head(sorted)>> \o insert_by_volume(Tail(sorted), d)
         ELSE <<d>> \o sorted

RECURSIVE sort_by_volume(_)
sort_by_volume(ds) ==
    IF ds = <<>> THEN <<>>
    ELSE insert_by_volume(sort_by_volume(SubSeq(ds, 1, Len(ds) - 1)), ds[Len(ds)])

\* apply_multiple_filters with no other filter enabled than analysis_based:
\* the pairs of the generated config, before create_base_config_template
\* sorts them by name
apply_multiple_filters(pairs_data, filters, file) ==
    LET names == [i \in 1..Len(pairs_data) |-> pairs_data[i].pair]
        analysis_pairs ==
            get_analysis_filtered_pairs(names, filters.min_score, file)
        filtered ==
            IF filters.analysis_based /\ analysis_pairs # <<>>
            THEN SelectSeq(pairs_data, LAMBDA d : d.pair \in Range(analysis_pairs))
            ELSE pairs_data
        by_volume == sort_by_volume(filtered)
        limited == IF Len(by_volume) > filters.max_pairs
                   THEN SubSeq(by_volume, 1, filters.max_pairs)
                   ELSE by_volume
    IN [i \in 1..Len(limited) |-> limited[i].pair]

CandidateIds == 1..MaxCandidates

\* get_exchange_pairs_with_volume: distinct pairs with their 24 h volume
PairsData ==
    {[i \in 1..Len(u) |-> [pair |-> u[i], volume_24h |-> 50 + 40 * (u[i] \div 3)]] :
        u \in {v \in UNION {[1..n -> CandidateIds] : n \in 0..MaxCandidates} :
                  Distinct(v)}}

\* analysis files: none, unreadable, or a result with a score for some of
\* the pairs
AnalysisFiles ==
    {[kind |-> "none", results |-> <<>>], [kind |-> "corrupt", results |-> <<>>]}
    \cup {[kind |-> "ok",
           results |-> SelectSeq([p \in CandidateIds |->
                                    [pair |-> p, composite_score |-> sc[p]]],
                                 LAMBDA r : r.composite_score >= 0)] :
             sc \in [CandidateIds -> {-1, 100, 300, 900}]}

PairlistProbes ==
    {[fn |-> "apply_multiple_filters",
      df |-> [pairs_data |-> d, file |-> f,
              filters |-> [analysis_based |-> ab, min_score |-> 300,
                           max_pairs |-> mp]],
      done |-> FALSE, out |-> None] :
        d \in PairsData, f \in AnalysisFiles, ab \in BOOLEAN,
        mp \in {0, 2, 200}}

InitPairlist ==
    /\ markets = [raises |-> FALSE, pairs |-> <<>>,
                  info |-> [p \in PairIds |-> Tradable]]
    /\ args = Args("1d", FALSE, <<>>)
    /\ scen = [p \in PairIds |-> DefaultScenario]
    /\ max_workers = 1
    /\ Fresh
    /\ pc = "probe"
    /\ probe \in PairlistProbes

CallApplyMultipleFilters ==
    /\ pc = "probe"
    /\ probe.fn = "apply_multiple_filters"
    /\ ~probe.done
    /\ probe' = [probe EXCEPT !.done = TRUE,
                     !.out = [whitelist |->
                                 apply_multiple_filters(probe.df.pairs_data,
                                     probe.df.filters, probe.df.file)]]
    /\ UNCHANGED <<markets, pairs, scen, max_workers, store, dlcount, task,
                   queue, collected, results, failed_pairs, pc, waited,
                   report, args, persisted>>

SpecPairlist == InitPairlist /\ [][CallApplyMultipleFilters]_vars

\* ------------------------------------------------------------------ claims
ResultPairs == {results[i].pair : i \in 1..Len(results)}

FailedPairs == {failed_pairs[j].pair : j \in 1..Len(failed_pairs)}

Occurrences(p) ==
    Cardinality({i \in 1..Len(results) : results[i].pair = p})
    + Cardinality({j \in 1..Len(failed_pairs) : failed_pairs[j].pair = p})

\* C1: when run_analysis has returned for a universe of pairwise distinct
\* pairs, every pair of the universe is in exactly one of results and
\* failed_pairs, no other pair is in either, and the two lengths add up to
\* the size of the universe.
C1_Partition ==
    (pc = "returned" /\ Distinct(pairs)) =>
        /\ \A p \in Range(pairs) : Occurrences(p) = 1
        /\ ResultPairs \cup FailedPairs \subseteq Range(pairs)
        /\ ResultPairs \cap FailedPairs = {}
        /\ Len(results) + Len(failed_pairs) = Len(pairs)

C1_Witness ==
    /\ pc = "returned"
    /\ Len(results) >= 1
    /\ Len(failed_pairs) >= 1

\* C2: the returned results are ordered by composite_score descending and,
\* among equal scores, by pair identifier ascending.
C2_TieBrokenByPair ==
    pc = "returned" =>
        \A i, j \in 1..Len(results) :
            i < j =>
                \/ results[i].composite_score > results[j].composite_score
                \/ /\ results[i].composite_score = results[j].composite_score
                   /\ results[i].pair < results[j].pair

\* C3: a task that never completes is recorded in failed_pairs once the
\* per-pair timeout has elapsed.
C3_HungPairRecorded ==
    \A i \in 1..Len(task) :
        (task[i].st = "hung" /\ waited >= result_timeout) =>
            pairs[i] \in FailedPairs

\* C4: in the returned list composite_score never increases from one
\* element to the next.
C4_NonIncreasing ==
    pc = "returned" =>
        \A i, j \in 1..Len(results) :
            i < j => results[i].composite_score >= results[j].composite_score

C4_Witness ==
    /\ pc = "returned"
    /\ Len(results) >= 2
    /\ results[1].composite_score > results[2].composite_score
    /\ results[1].pair > results[2].pair

\* a returned result without its composite_score
Metrics(r) ==
    [pair |-> r.pair, volatility |-> r.volatility,
     trend_strength |-> r.trend_strength, volume_score |-> r.volume_score,
     coral_score |-> r.coral_score, stc_score |-> r.stc_score,
     data_points |-> r.data_points, data_quality |-> r.data_quality,
     timeframe |-> r.timeframe]

\* C5: the results (pairs and metric values) and the failed pairs of a
\* returned run are those analyze_pair yields for each pair on its own,
\* whatever the interleaving and the completion order were.
C5_OutcomeSetsDetermined ==
    pc = "returned" =>
        /\ {Metrics(results[i]) : i \in 1..Len(results)}
             = {analyze_pair(p, scen[p]) : p \in Range(pairs)} \ {None}
        /\ FailedPairs
             = {p \in Range(pairs) : analyze_pair(p, scen[p]) = None}

C5_Witness ==
    /\ pc = "returned"
    /\ Len(results) >= 1
    /\ \E p \in FailedPairs : dlcount[p] >= 2

\* the failure of the pair of task i has happened: its task is hung and the
\* timeout has elapsed, or the run returned with the pair failed
FailureOf(i) ==
    \/ task[i].st = "hung" /\ waited >= result_timeout
    \/ pc = "returned" /\ task[i].ret = None

\* C6: when one pair has failed (acquisition failure, exception, timeout)
\* every other pair has still been acquired and analysed with the outcome
\* it has on its own, and failed_pairs holds only pairs that fail on their
\* own.
C6_FailureIsLocal ==
    /\ \A i, j \in 1..Len(task) :
          (i # j /\ FailureOf(i)) =>
              LET solo == analyze_pair(pairs[j], scen[pairs[j]])
              IN IF solo = Hang THEN task[j].st = "hung"
                 ELSE task[j].st = "done" /\ task[j].ret = solo
    /\ \A p \in FailedPairs : analyze_pair(p, scen[p]) = None

\* C7: a task of analyze_pair never ends by raising; it ends with a result
\* for its pair or with None.
C7_NeverRaises ==
    \A i \in 1..Len(task) :
        /\ task[i].st # "raised"
        /\ task[i].st = "done" =>
              (task[i].ret = None \/ task[i].ret.pair = pairs[i])

C7_Witness ==
    \E i \in 1..Len(task) :
        /\ task[i].st = "done"
        /\ scen[pairs[i]].fault = "outer"
        /\ task[i].ret = None

\* the reason the first failing stage gives for a pair that fails
FirstFailingStage(sc) ==
    LET df == ensure_pair_data(sc.local, sc.dl, 1, days_to_analyze + extra_days)
    IN IF sc.fault = "outer" \/ df = "None" \/ df = "hang"
       THEN "insufficient-data"
       ELSE IF Series(df).bars < min_data_points THEN "insufficient-data"
       ELSE IF ~check_data_quality(Series(df)) THEN "quality-rejected"
       ELSE "computation-error"

\* C8: every entry of failed_pairs carries the reason of the first stage
\* that failed for its pair.
C8_FailureHasReason ==
    \A j \in 1..Len(failed_pairs) :
        /\ "reason" \in DOMAIN failed_pairs[j]
        /\ failed_pairs[j].reason = FirstFailingStage(scen[failed_pairs[j].pair])

Clamp(x, lo, hi) == Max(lo, Min(x, hi))

\* C9: the composite_score assigned to a result is the weighted sum of its
\* metrics, each clamped below at 0 and above at its cap.
C9_ClampedFormula ==
    pc = "returned" =>
        \A i \in 1..Len(results) :
            results[i].composite_score =
                6 * Clamp(results[i].trend_strength, 0, 100000)
                + 100 * Clamp(results[i].volatility, 0, 5000)
                + 20 * Clamp(results[i].volume_score, 0, 20000)
                + 300 * Clamp(results[i].coral_score, 0, 1000)
                + 2 * Clamp(results[i].stc_score, 0, 100000)

\* C10: every returned result has composite_score in [0, 1].
C10_ScoreInUnitInterval ==
    pc = "returned" =>
        \A i \in 1..Len(results) :
            /\ results[i].composite_score >= 0
            /\ results[i].composite_score <= ScoreScale

\* the composite score a run whose universe is {p} gives p
AloneScore(p) ==
    rank(collect_one(<<>>, <<>>, p,
             [st |-> "done", ret |-> analyze_pair(p, scen[p])]).results)[1]
        .composite_score

\* C11: the composite_score a pair has in the results of a run equals the
\* composite_score it has in a run whose universe is that pair alone, on
\* the same candle data.
C11_ScoreIndependentOfRun ==
    pc = "returned" =>
        \A i \in 1..Len(results) :
            results[i].composite_score = AloneScore(results[i].pair)

C11_Witness ==
    /\ pc = "returned"
    /\ Len(results) = 2
    /\ results[1].composite_score > results[2].composite_score
    /\ results[2].composite_score > 0

\* the file and the download runs left when pass j of ensure_pair_data
\* starts, the passes before it having returned nothing
RECURSIVE PassStart(_, _)
PassStart(sc, j) ==
    IF j = 1 THEN [file |-> sc.local, dl |-> sc.dl]
    ELSE LET s == PassStart(sc, j - 1)
             out == IF s.dl # <<>> THEN Head(s.dl) ELSE DlError
             a == ensure_attempt(s.file, out, days_to_analyze + extra_days)
         IN [file |-> a.file,
             dl |-> IF a.dl /\ s.dl # <<>> THEN Tail(s.dl) ELSE s.dl]

\* the frame pass j yields, "None" when it yields no valid data
PassYield(sc, j) ==
    LET s == PassStart(sc, j)
        out == IF s.dl # <<>> THEN Head(s.dl) ELSE DlError
    IN IF sc.fault = "inner" THEN "None"
       ELSE ensure_attempt(s.file, out, days_to_analyze + extra_days).df

\* C12: ensure_pair_data never raises; when it has returned, and pass k is
\* the first of the max_retries passes to yield valid data, it made exactly
\* k passes and returned that frame; when no pass yields valid data it made
\* exactly max_retries passes and returned None.
C12_AttemptsUntilFirstValid ==
    \A i \in 1..Len(task) :
        /\ task[i].st # "raised"
        /\ task[i].st = "done" =>
              LET sc == scen[pairs[i]]
                  K == {j \in 1..max_retries : PassYield(sc, j) # "None"}
              IN IF K # {}
                 THEN LET k == CHOOSE j \in K : \A h \in K : j <= h
                      IN /\ task[i].attempt = k
                         /\ task[i].df = PassYield(sc, k)
                 ELSE /\ task[i].attempt = max_retries
                      /\ task[i].df = "None"

\* the third pass is the first to yield valid data
C12_Witness ==
    /\ Len(task) = 1
    /\ task[1].st = "done"
    /\ task[1].attempt = max_retries
    /\ task[1].df # "None"
    /\ dlcount[1] = max_retries

\* the pair's local file holds a series of at least required_days bars
LocalLongEnough(sc) ==
    /\ sc.local.exists
    /\ sc.local.content \in SeriesIds
    /\ Series(sc.local.content).bars >= days_to_analyze + extra_days

\* C13: when the local series of a pair has at least required_days bars
\* (and no pass raises), the download is never invoked for the pair, and
\* ensure_pair_data returns the local series on its first pass.
C13_LocalReturnedWithoutDownload ==
    \A i \in 1..Len(task) :
        LET sc == scen[pairs[i]]
        IN (LocalLongEnough(sc) /\ sc.fault = "none") =>
              /\ dlcount[pairs[i]] = 0
              /\ store[pairs[i]] = sc.local
              /\ task[i].st \notin {"hung", "raised"}
              /\ task[i].st = "done" =>
                    /\ task[i].attempt = 1
                    /\ task[i].df = sc.local.content

\* a download that would have succeeded was there to be invoked
C13_Witness ==
    /\ Len(task) = 1
    /\ task[1].st = "done"
    /\ LocalLongEnough(scen[1])
    /\ scen[1].fault = "none"
    /\ scen[1].dl # <<>>
    /\ scen[1].dl[1].kind = "ok"
    /\ task[1].df = scen[1].local.content
    /\ dlcount[1] = 0

\* the file parses into a non-empty series
ParsesNonEmpty(file) ==
    /\ file.content \in SeriesIds
    /\ Series(file.content).bars > 0

C15_ReturnedSeriesFilled ==
    \A i \in 1..Len(task) :
        (task[i].st = "done" /\ task[i].df # "None") =>
            /\ Series(task[i].df).bars = Series(store[pairs[i]].content).bars
            /\ Series(task[i].df).nullmax \in {0, 100}

\* C16: check_data_quality never raises, and it rejects a frame exactly
\* when the frame is empty, or a column has more than max_null_percentage
\* of nulls, or one of open/high/low/close/volume is absent, or a price is
\* <= 0; a frame with exactly max_null_percentage of nulls is accepted.
C16_GateRejectsExactly ==
    (probe.fn = "check_data_quality" /\ probe.done) =>
        /\ ~probe.out.raised
        /\ ~probe.out.accepted <=>
              \/ probe.df.bars = 0
              \/ probe.df.nullmax > max_null_percentage_pct
              \/ \E c \in OHLCV : c \notin probe.df.cols
              \/ probe.df.minprice <= 0

C16_Witness ==
    /\ probe.fn = "check_data_quality"
    /\ probe.done
    /\ probe.out.accepted
    /\ probe.df.nullmax = max_null_percentage_pct
    /\ probe.df.bars > 0

MetricFields ==
    {"volatility", "trend_strength", "volume_score", "coral_score",
     "stc_score", "data_quality"}

\* C17: for a frame that passes the gate analyze_dataframe returns a result
\* whose numeric fields are all finite, a NaN or infinite value of a kernel
\* having been replaced by 0.
C17_MetricsFinite ==
    (probe.fn = "analyze_dataframe" /\ probe.done
        /\ check_data_quality(probe.df)) =>
        /\ probe.out.result # None
        /\ \A f \in MetricFields :
              /\ isfinite(probe.out.metrics[f])
              /\ probe.out.result[f] = probe.out.metrics[f].v
        /\ probe.out.result.data_points = probe.df.bars
        /\ ~isfinite(probe.df.std14) => probe.out.result.volatility = 0
        /\ ("adx" \notin probe.df.fails /\ ~isfinite(probe.df.adx)) =>
              probe.out.result.trend_strength = 0
        /\ ("adx" \in probe.df.fails /\ ~isfinite(probe.df.pct)) =>
              probe.out.result.trend_strength = 0
        /\ ~isfinite(log1p(probe.df.meanvol)) =>
              probe.out.result.volume_score = 0

\* an infinite volatility and an infinite volume score were replaced
C17_Witness ==
    /\ probe.fn = "analyze_dataframe"
    /\ probe.done
    /\ check_data_quality(probe.df)
    /\ probe.df.std14 = PosInf
    /\ log1p(probe.df.meanvol) = NegInf
    /\ probe.out.result.volatility = 0
    /\ probe.out.result.volume_score = 0

\* C18: when the universe is empty or the market provider raises, main
\* ends having analysed no pair and having produced a report with zero
\* results and zero failures.
C18_EmptyUniverseReported ==
    (pc \in {"exit0", "exit1"} /\ pairs = <<>>) =>
        /\ task = <<>>
        /\ report # None
        /\ report.results = <<>>
        /\ report.failed_pairs = <<>>

\* C19: a task that had not started executing when the interrupt arrived
\* is not started afterwards.
C19_NoStartAfterInterrupt ==
    \A i \in 1..Len(task) :
        task[i].pending => (task[i].st = "queued" /\ task[i].runs = 0)

\* C20: run_analysis submits one task per pair of the universe, no work
\* item is executed more than once, and at every moment at most max_workers
\* tasks are executing.
C20_OneTaskPerPairBoundedPool ==
    /\ Cardinality(Busy) <= max_workers
    /\ pc \notin {"idle", "probe"} => Len(task) = Len(pairs)
    /\ \A i \in 1..Len(task) :
          /\ task[i].runs <= 1
          /\ task[i].runs = 0 <=> task[i].st = "queued"
          /\ Cardinality({j \in 1..Len(queue) : queue[j] = i})
                 = IF task[i].st = "queued" THEN 1 ELSE 0
    /\ pc \in {"returned", "exit0", "exit1"} =>
          \A i \in 1..Len(task) : task[i].runs = 1

\* the pool is full and a task waits in the queue
C20_Witness ==
    /\ pc = "collecting"
    /\ Cardinality(Busy) = max_workers
    /\ queue # <<>>
    /\ \A j \in 1..Len(queue) : task[queue[j]].runs = 0

\* every pair of the universe fails (none hangs)
AllFail == \A p \in Range(universe(args, markets)) : analyze_pair(p, scen[p]) = None

CountsMatch(r) ==
    /\ r.metadata.successful_pairs = Len(r.results)
    /\ r.metadata.failed_pairs = Len(r.failed_pairs)

\* C21: a run in which every pair of a non-empty universe fails is never
\* stuck before main returns and ends with a report whose metadata has
\* successful_pairs = 0 and failed_pairs = number of pairs > 0; in every
\* report the two counts of the metadata are the lengths of results and
\* failed_pairs.
C21_AllFailedRunReports ==
    /\ report # None => CountsMatch(report)
    /\ persisted # None => CountsMatch(persisted)
    /\ (AllFail /\ universe(args, markets) # <<>>) =>
          /\ pc \in {"idle", "collecting", "returned"} => ENABLED Next
          /\ pc # "exit1"
          /\ pc = "exit0" =>
                /\ report # None
                /\ report.metadata.successful_pairs = 0
                /\ report.metadata.failed_pairs = Len(pairs)
                /\ Len(pairs) > 0

C21_Witness ==
    /\ pc = "exit0"
    /\ results = <<>>
    /\ Len(pairs) = 2
    /\ report # None
    /\ report.metadata.failed_pairs = 2
    /\ report.metadata.successful_pairs = 0

\* C22: the top_pairs of a report are the pairs of the first
\* min(top_n, len(results)) results, in the order of results, and there are
\* none when results is empty.
C22_TopPairsArePrefix ==
    (probe.fn = "save_results" /\ probe.done) =>
        LET r == probe.out
        IN /\ r.results = probe.df.results
           /\ Len(r.top_pairs) = Min(top_n, Len(r.results))
           /\ \A i \in 1..Len(r.top_pairs) : r.top_pairs[i] = r.results[i].pair
           /\ r.results = <<>> => r.top_pairs = <<>>

\* more results than top_n
C22_Witness ==
    /\ probe.fn = "save_results"
    /\ probe.done
    /\ Len(probe.out.results) > top_n
    /\ Len(probe.out.top_pairs) = top_n
    /\ probe.out.top_pairs[top_n] = probe.out.results[top_n].pair

\* the waits the claim puts after the passes 1..n, none of them the last
RECURSIVE ClaimedWaits(_)
ClaimedWaits(n) == IF n = 0 THEN 0 ELSE Min(10 * n, 30) + ClaimedWaits(n - 1)

\* C23: after every pass of ensure_pair_data that ends without a series,
\* except the last, the acquirer has waited min(10 * attempt, 30) seconds
\* before the next pass starts.
C23_WaitBeforeEveryRetry ==
    \A i \in 1..Len(task) :
        task[i].st = "running" =>
            task[i].waits = ClaimedWaits(task[i].attempt - 1)

\* C24: every series ensure_pair_data returns has at least required_days
\* bars.
C24_ReturnedSeriesLongEnough ==
    \A i \in 1..Len(task) :
        (task[i].st = "done" /\ task[i].df # "None") =>
            Series(task[i].df).bars >= days_to_analyze + extra_days

\* the metrics the calculators stand for
MetricOf(c) ==
    CASE c = "volatility" -> "volatility"
      [] c = "adx" -> "trend_strength"
      [] c = "volume" -> "volume_score"
      [] c = "coral" -> "coral_score"
      [] OTHER -> "stc_score"

\* C25: when exactly one calculator raises inside on a frame that passes
\* the gate, analyze_dataframe returns a result in which that metric is 0
\* (trend strength: its fallback, the mean absolute price change in
\* percent, 0 when that is NaN) and the other four metrics are what they are
\* when no calculator raises.
C25_OneMetricFailureIsLocal ==
    (probe.fn = "analyze_dataframe" /\ probe.done
        /\ check_data_quality(probe.df)
        /\ Cardinality(probe.df.fails) = 1) =>
        LET c == CHOOSE x \in probe.df.fails : TRUE
            sound == analyze_dataframe([probe.df EXCEPT !.fails = {}], 1, "none")
            res == probe.out.result
        IN /\ res # None
           /\ sound # None
           /\ \A d \in Calculators \ {c} : res[MetricOf(d)] = sound[MetricOf(d)]
           /\ res[MetricOf(c)] =
                 IF c = "adx" /\ isfinite(probe.df.pct) THEN probe.df.pct.v ELSE 0
           /\ res.data_points = sound.data_points
           /\ res.data_quality = sound.data_quality

\* the coral calculator raised on a frame on which it gives a score
C25_Witness ==
    /\ probe.fn = "analyze_dataframe"
    /\ probe.done
    /\ check_data_quality(probe.df)
    /\ probe.df.fails = {"coral"}
    /\ probe.df.bars >= 20
    /\ isfinite(probe.df.coral)
    /\ probe.df.coral.v > 0
    /\ probe.out.result # None
    /\ probe.out.result.coral_score = 0
    /\ probe.out.result.stc_score > 0

\* C26: the report main holds and the report save_results wrote have the
\* same metadata, results, failed_pairs and top_pairs.
C26_ReportNotModified ==
    report # None =>
        /\ persisted # None
        /\ report.metadata = persisted.metadata
        /\ report.results = persisted.results
        /\ report.failed_pairs = persisted.failed_pairs
        /\ report.top_pairs = persisted.top_pairs

\* C27: the timeframe of the data manager, the timeframe of every result
\* and the timeframe of the report metadata are the timeframe of the
\* command line.
C27_OneTimeframe ==
    pc = "exit0" =>
        /\ report.metadata.timeframe = args.timeframe
        /\ data_manager_timeframe = args.timeframe
        /\ \A i \in 1..Len(results) : results[i].timeframe = args.timeframe

\* C28: the universe run_analysis analyses has no duplicate pair and only
\* pairs that end with '/<quote currency>' and that the exchange lists as
\* active, spot, non-margin and non-futures.
C28_UniverseFiltered ==
    pc \notin {"idle", "probe"} =>
        /\ Distinct(pairs)
        /\ \A p \in Range(pairs) :
              /\ markets.info[p].quote
              /\ markets.info[p].active
              /\ markets.info[p].spot
              /\ ~markets.info[p].margin
              /\ ~markets.info[p].future

\* C29: for distinct pairs and the same timeframe, no candidate file name
\* of the one is a candidate file name of the other.
C29_FileNamesDisjoint ==
    (probe.fn = "get_data_filenames" /\ probe.done
        /\ probe.df.p # probe.df.q) =>
        Range(probe.out.p) \cap Range(probe.out.q) = {}

\* two pairs that differ in one separator character of the base only
C29_Witness ==
    /\ probe.fn = "get_data_filenames"
    /\ probe.done
    /\ probe.df.p = <<"A", "_", "A", "/", "Q">>
    /\ probe.df.q = <<"A", "-", "A", "/", "Q">>
    /\ probe.out.p[1] = <<"A", "_", "A", "_", "Q", "-", "1d", ".json">>
    /\ probe.out.q[2] = <<"A", "-", "A", "-", "Q", "-", "1d", ".json">>

\* the score the analysis file gives the pair is at least min_score
ReachesMinScore(p, file, min_score) ==
    /\ file.kind = "ok"
    /\ \E i \in 1..Len(file.results) :
          /\ file.results[i].pair = p
          /\ file.results[i].composite_score >= min_score

\* C30 as stated: with the analysis_based filter enabled every pair of the
\* whitelist reaches min_score in the analysis file, whatever the file, and
\* the whitelist has at most max_pairs pairs.
C30_Original ==
    (probe.fn = "apply_multiple_filters" /\ probe.done
        /\ probe.df.filters.analysis_based) =>
        /\ \A p \in Range(probe.out.whitelist) :
              ReachesMinScore(p, probe.df.file, probe.df.filters.min_score)
        /\ Len(probe.out.whitelist) <= probe.df.filters.max_pairs

\* C30: with the analysis_based filter enabled, when the latest analysis
\* file can be read and some candidate pair reaches min_score in it, every
\* pair of the whitelist reaches min_score; otherwise the whitelist holds
\* the candidates unfiltered; it has at most max_pairs pairs and only
\* candidate pairs.
C30_FilterWhenSomePairQualifies ==
    (probe.fn = "apply_multiple_filters" /\ probe.done
        /\ probe.df.filters.analysis_based) =>
        LET cand == {probe.df.pairs_data[i].pair :
                         i \in 1..Len(probe.df.pairs_data)}
            good == {p \in cand : ReachesMinScore(p, probe.df.file,
                                       probe.df.filters.min_score)}
            wl == probe.out.whitelist
            cut == Len(wl) = probe.df.filters.max_pairs
        IN /\ Len(wl) <= probe.df.filters.max_pairs
           /\ Distinct(wl)
           /\ Range(wl) \subseteq cand
           /\ good # {} => Range(wl) \subseteq good
           /\ (good # {} /\ ~cut) => Range(wl) = good
           /\ (good = {} /\ ~cut) => Range(wl) = cand

\* one candidate is dropped for its score, two are kept
C30_Witness ==
    /\ probe.fn = "apply_multiple_filters"
    /\ probe.done
    /\ probe.df.filters.analysis_based
    /\ Len(probe.df.pairs_data) = 3
    /\ Len(probe.out.whitelist) = 2
    /\ probe.df.filters.max_pairs > 2
    /\ \A p \in Range(probe.out.whitelist) :
          ReachesMinScore(p, probe.df.file, probe.df.filters.min_score)

====
